---- MODULE Spec2Model ----
(***************************************************************************)
(* clabs_smart_commit.py: the commit-msg hook that extracts the Jira       *)
(* commands of a commit message (issue key, time, comment, transition),    *)
(* asks the tracker about the issue's subtasks and rewrites the message    *)
(* file with the composed smart commit.                                    *)
(*                                                                         *)
(* Text is a sequence of one-character strings; the regular expressions    *)
(* of the source are evaluated character by character.  Python's None and  *)
(* the empty string are both falsy in every test the program makes, and    *)
(* are both the empty sequence here (the one place that tells them apart,  *)
(* the f-string of the request URL, is IssueUrlKey).                       *)
(***************************************************************************)
EXTENDS Integers, Sequences, FiniteSets

(* ------------------------------ bounds -------------------------------- *)

MaxWords == 4        \* words of a commit message
MaxSubtasks == 2     \* subtasks of the issue the tracker reports
MaxRuns == 2         \* times the hook runs on the same message file

(* ---------------------------- characters ------------------------------ *)

None == <<>>

LowerCase == <<"a","b","c","d","e","f","g","h","i","j","k","l","m",
               "n","o","p","q","r","s","t","u","v","w","x","y","z">>
UpperCase == <<"A","B","C","D","E","F","G","H","I","J","K","L","M",
               "N","O","P","Q","R","S","T","U","V","W","X","Y","Z">>

UpperSet == {UpperCase[i] : i \in 1..26}
LowerSet == {LowerCase[i] : i \in 1..26}
ToLower == [c \in UpperSet |-> LowerCase[CHOOSE i \in 1..26 : UpperCase[i] = c]]
ToUpper == [c \in LowerSet |-> UpperCase[CHOOSE i \in 1..26 : LowerCase[i] = c]]

IsUpper(c) == c \in UpperSet
IsLower(c) == c \in LowerSet
IsDigit(c) == c \in {"0","1","2","3","4","5","6","7","8","9"}
\* \s
IsSpace(c) == c \in {" ", "\n", "\t", "\r"}
\* \w
IsWord(c) == IsUpper(c) \/ IsLower(c) \/ IsDigit(c) \/ c = "_"
\* [hdm]
IsUnit(c) == c \in {"h", "d", "m"}

LowerChar(c) == IF IsUpper(c) THEN ToLower[c] ELSE c
UpperChar(c) == IF IsLower(c) THEN ToUpper[c] ELSE c

\* str.lower, str.upper
Lower(s) == [i \in 1..Len(s) |-> LowerChar(s[i])]
Upper(s) == [i \in 1..Len(s) |-> UpperChar(s[i])]

\* the literal lit stands in s at position i
LiteralAt(s, i, lit) ==
    /\ i >= 1
    /\ i + Len(lit) - 1 <= Len(s)
    /\ \A k \in 1..Len(lit) : s[i + k - 1] = lit[k]

\* first position from i on that holds no \s, no \d, no \w, no \S (Len(s)+1 at the end)
RECURSIVE SkipSpaces(_, _)
SkipSpaces(s, i) == IF i <= Len(s) /\ IsSpace(s[i]) THEN SkipSpaces(s, i + 1) ELSE i
RECURSIVE SkipDigits(_, _)
SkipDigits(s, i) == IF i <= Len(s) /\ IsDigit(s[i]) THEN SkipDigits(s, i + 1) ELSE i
RECURSIVE SkipWord(_, _)
SkipWord(s, i) == IF i <= Len(s) /\ IsWord(s[i]) THEN SkipWord(s, i + 1) ELSE i
RECURSIVE SkipNonSpaces(_, _)
SkipNonSpaces(s, i) == IF i <= Len(s) /\ ~IsSpace(s[i]) THEN SkipNonSpaces(s, i + 1) ELSE i
\* . matches every character but the newline
RECURSIVE SkipLine(_, _)
SkipLine(s, i) == IF i <= Len(s) /\ s[i] # "\n" THEN SkipLine(s, i + 1) ELSE i

\* str.strip
RECURSIVE StripRight(_)
StripRight(s) == IF Len(s) > 0 /\ IsSpace(s[Len(s)]) THEN StripRight(SubSeq(s, 1, Len(s) - 1)) ELSE s
Strip(s) == StripRight(SubSeq(s, SkipSpaces(s, 1), Len(s)))

(* ------------------------- extract_jira_issue_key --------------------- *)

project_key == <<"C","C","D","P","1">>

\* rf"{project_key}-(\d+)" with re.IGNORECASE matches at i
IssueKeyAt(s, i) ==
    /\ i + Len(project_key) + 1 <= Len(s)
    /\ \A k \in 1..Len(project_key) : LowerChar(s[i + k - 1]) = LowerChar(project_key[k])
    /\ s[i + Len(project_key)] = "-"
    /\ IsDigit(s[i + Len(project_key) + 1])

\* re.search: the first position from i on where the pattern matches, 0 when none does
RECURSIVE SearchIssueKey(_, _)
SearchIssueKey(s, i) ==
    IF i > Len(s) THEN 0
    ELSE IF IssueKeyAt(s, i) THEN i
    ELSE SearchIssueKey(s, i + 1)

extract_jira_issue_key(message) ==
    LET i == SearchIssueKey(message, 1)
    IN  IF i # 0
        THEN Upper(SubSeq(message, i, SkipDigits(message, i + Len(project_key) + 1) - 1))
        ELSE None

(* ------------------------ extract_and_validate_time ------------------- *)

time_token == <<"#","t","i","m","e">>

\* \d+\s*[hdm] from i: the position of its unit, 0 when it does not match
ComponentEnd(s, i) ==
    IF i <= Len(s) /\ IsDigit(s[i])
    THEN LET u == SkipSpaces(s, SkipDigits(s, i))
         IN  IF u <= Len(s) /\ IsUnit(s[u]) THEN u ELSE 0
    ELSE 0

\* (?:\s+\d+\s*[hdm])* after the component that ends at e: the end of the last one
RECURSIVE MoreComponents(_, _)
MoreComponents(s, e) ==
    LET j == SkipSpaces(s, e + 1)
    IN  IF j > e + 1 /\ ComponentEnd(s, j) # 0
        THEN MoreComponents(s, ComponentEnd(s, j))
        ELSE e

\* #time\s+(\d+\s*[hdm](?:\s+\d+\s*[hdm])*) matches at i
TimeAt(s, i) ==
    /\ LiteralAt(s, i, time_token)
    /\ SkipSpaces(s, i + Len(time_token)) > i + Len(time_token)
    /\ ComponentEnd(s, SkipSpaces(s, i + Len(time_token))) # 0

\* group(1) of the first match, None without a match
RECURSIVE SearchTime(_, _)
SearchTime(s, i) ==
    IF i > Len(s) THEN 0
    ELSE IF TimeAt(s, i) THEN i
    ELSE SearchTime(s, i + 1)

time_match(commit_msg) ==
    LET i == SearchTime(commit_msg, 1)
        b == SkipSpaces(commit_msg, i + Len(time_token))
    IN  IF i # 0
        THEN SubSeq(commit_msg, b, MoreComponents(commit_msg, ComponentEnd(commit_msg, b)))
        ELSE None

\* re.match(r"^\d+[hdm]", time_str)
is_valid_time_format(time_str) ==
    /\ Len(time_str) > 0
    /\ IsDigit(time_str[1])
    /\ SkipDigits(time_str, 1) <= Len(time_str)
    /\ IsUnit(time_str[SkipDigits(time_str, 1)])

\* the condition of the raise ValueError
time_is_rejected(commit_msg) ==
    \/ time_match(commit_msg) = None
    \/ ~is_valid_time_format(time_match(commit_msg))

(* ------------------------------ extract_comment ----------------------- *)

comment_token == <<"#","c","o","m","m","e","n","t">>

\* where (.+) starts when #comment\s+(.+) matches at i, 0 when it does not:
\* \s+ takes the longest run of whitespace that leaves a character other
\* than the newline for (.+)
CommentTextAt(s, i) ==
    IF ~LiteralAt(s, i, comment_token) THEN 0
    ELSE LET b == i + Len(comment_token)
             e == SkipSpaces(s, b)
             starts == {k \in (b + 1)..e : k <= Len(s) /\ s[k] # "\n"}
         IN  IF starts = {} THEN 0
             ELSE CHOOSE k \in starts : \A l \in starts : l <= k

\* the text that remains after the last match of #time\s+\S+\s*|#\w+
\* (re.split(...)[-1]); from is the scan position, last the end of the last match
RECURSIVE AfterLastToken(_, _, _)
AfterLastToken(s, from, last) ==
    IF from > Len(s) THEN SubSeq(s, last + 1, Len(s))
    ELSE IF s[from] # "#" THEN AfterLastToken(s, from + 1, last)
    ELSE LET b == from + Len(time_token)
             v == SkipSpaces(s, b)
             w == SkipWord(s, from + 1)
         IN  IF LiteralAt(s, from, time_token) /\ v > b /\ SkipNonSpaces(s, v) > v
             THEN LET e == SkipSpaces(s, SkipNonSpaces(s, v))
                  IN  AfterLastToken(s, e, e - 1)
             ELSE IF w > from + 1
             THEN AfterLastToken(s, w, w - 1)
             ELSE AfterLastToken(s, from + 1, last)

\* where group(1) of the first match of #comment\s+(.+) starts, 0 without a match
RECURSIVE SearchComment(_, _)
SearchComment(s, i) ==
    IF i > Len(s) THEN 0
    ELSE IF CommentTextAt(s, i) # 0 THEN CommentTextAt(s, i)
    ELSE SearchComment(s, i + 1)

extract_comment(commit_msg, time_spent) ==
    LET b == SearchComment(commit_msg, 1)
    IN  IF b # 0
        THEN Strip(SubSeq(commit_msg, b, SkipLine(commit_msg, b) - 1))
        ELSE Strip(AfterLastToken(commit_msg, 1, 0))

(* ----------------------------- extract_transition --------------------- *)

allowed_transitions == <<
    <<"t","o","_","d","o">>,
    <<"t","e","s","t","i","n","g","_","d","o","n","e">>,
    <<"s","t","a","g","i","n","g","_","d","e","p","l","o","y","e","d">>,
    <<"s","t","a","g","i","n","g","_","a","p","p","r","o","v","e","d">>,
    <<"r","e","v","i","e","w">>,
    <<"p","r","o","d","u","c","t","i","o","n","_","d","e","p","l","o","y","e","d">>,
    <<"d","o","n","e">>,
    <<"p","e","e","r","_","r","e","v","i","e","w">>,
    <<"i","n","_","p","r","o","g","r","e","s","s">> >>

IsAllowed(state) == \E k \in 1..Len(allowed_transitions) : allowed_transitions[k] = state

\* re.findall(r"#(\w+)", commit_msg) from position i on
RECURSIVE FindAllStates(_, _)
FindAllStates(s, i) ==
    IF i > Len(s) THEN <<>>
    ELSE IF s[i] = "#" /\ SkipWord(s, i + 1) > i + 1
    THEN <<SubSeq(s, i + 1, SkipWord(s, i + 1) - 1)>> \o FindAllStates(s, SkipWord(s, i + 1))
    ELSE FindAllStates(s, i + 1)

\* list(map(str.lower, states))
LowerStates(states) == [k \in 1..Len(states) |-> Lower(states[k])]

\* the first state that is in allowed_transitions
FirstAllowed(states) ==
    IF \E k \in 1..Len(states) : IsAllowed(states[k])
    THEN states[CHOOSE k \in 1..Len(states) :
                    /\ IsAllowed(states[k])
                    /\ \A l \in 1..(k - 1) : ~IsAllowed(states[l])]
    ELSE None

\* the scan without the str.lower of line 156
find_transition_case_sensitive(commit_msg) == FirstAllowed(FindAllStates(commit_msg, 1))

\* lines 153-163 of extract_transition, the scan that follows the subtask check
find_transition(commit_msg) == FirstAllowed(LowerStates(FindAllStates(commit_msg, 1)))

(* ------------------------ compose_smart_commit_message ---------------- *)

\* the composition with the transition appended before the comment
compose_transition_first(issue_key, time, comment, transition) ==
    LET base_message == issue_key \o <<" ">> \o time_token \o <<" ">> \o time
        with_transition == IF transition # None
                           THEN base_message \o <<" ", "#">> \o transition
                           ELSE base_message
    IN  IF comment # None
        THEN with_transition \o <<" ">> \o comment_token \o <<" ">> \o comment
        ELSE with_transition

compose_smart_commit_message(issue_key, time, comment, transition) ==
    LET base_message == issue_key \o <<" ">> \o time_token \o <<" ">> \o time
        with_comment == IF comment # None
                        THEN base_message \o <<" ">> \o comment_token \o <<" ">> \o comment
                        ELSE base_message
    IN  IF transition # None
        THEN with_comment \o <<" ", "#">> \o transition
        ELSE with_comment

(* ------------------------------- inputs ------------------------------- *)

\* the words commit messages are made of
Words == <<
    <<"c","c","d","p","1","-","7">>,
    <<"#","t","i","m","e"," ","1","h">>,
    <<"#","t","i","m","e"," ","2","h"," ","3","0","m">>,
    <<"#","t","i","m","e"," ","1","h"," ","2"," ","m">>,
    <<"#","t","i","m","e"," ","2","x">>,
    <<"#","c","o","m","m","e","n","t"," ","f","i","x">>,
    <<"f","i","x","\n","i","t">>,
    <<"#","D","o","n","e">>,
    <<"#","r","e","v","i","e","w">>,
    <<"#","w","i","p">> >>

\* the words of ws, joined by single spaces
RECURSIVE Join(_)
Join(ws) ==
    IF Len(ws) = 0 THEN <<>>
    ELSE IF Len(ws) = 1 THEN Words[ws[1]]
    ELSE Words[ws[1]] \o <<" ">> \o Join(Tail(ws))

\* the commit messages: at most MaxWords different words, in any order
Messages ==
    {Join(ws) : ws \in {f \in UNION {[1..n -> 1..Len(Words)] : n \in 0..MaxWords} :
                           \A i, j \in DOMAIN f : i # j => f[i] # f[j]}}

\* the messages every answer of the tracker is enumerated for
GateMessages == {Join(<<1, 2, 8, 7>>), Join(<<1, 3, 6, 9>>), Join(<<1, 2, 6>>), Join(<<2, 9, 7>>)}

SubtaskKeys == <<"CCDP1-8", "CCDP1-9", "CCDP1-10", "CCDP1-11">>
StatusCategories == {"done", "indeterminate", "new"}

HTTP_OK == 200

\* what requests.request gives: an exception (kind "error") or a response
NoResponse == [kind |-> "none", status_code |-> 0, json |-> FALSE, subtask |-> FALSE, subtasks |-> <<>>]
ConnectionError == [kind |-> "error", status_code |-> 0, json |-> FALSE, subtask |-> FALSE, subtasks |-> <<>>]
NotFound == [kind |-> "response", status_code |-> 404, json |-> TRUE, subtask |-> FALSE, subtasks |-> <<>>]
NoContent == [kind |-> "response", status_code |-> 204, json |-> FALSE, subtask |-> FALSE, subtasks |-> <<>>]
Malformed == [kind |-> "response", status_code |-> HTTP_OK, json |-> FALSE, subtask |-> FALSE, subtasks |-> <<>>]

Issue(subtask, categories) ==
    [kind |-> "response", status_code |-> HTTP_OK, json |-> TRUE, subtask |-> subtask,
     subtasks |-> [k \in 1..Len(categories) |-> [key |-> SubtaskKeys[k], status |-> categories[k]]]]

Issues == {Issue(st, cs) : st \in BOOLEAN,
                           cs \in UNION {[1..n -> StatusCategories] : n \in 0..MaxSubtasks}}

AllResponses == {ConnectionError, NotFound, NoContent, Malformed} \cup Issues
FewResponses == {NotFound, Issue(FALSE, <<>>), Issue(FALSE, <<"indeterminate">>)}

\* the environment of a run: whether the two variables are set, and what
\* get_branch gives (the empty text when git fails)
Environments == {
    [jira_email |-> FALSE, jira_api_token |-> TRUE, branch |-> <<"f","e","a","t","-","7">>],
    [jira_email |-> TRUE, jira_api_token |-> FALSE, branch |-> <<"f","e","a","t","-","7">>],
    [jira_email |-> TRUE, jira_api_token |-> TRUE, branch |-> <<"m","a","i","n">>],
    [jira_email |-> TRUE, jira_api_token |-> TRUE, branch |-> <<"s","t","a","g","i","n","g","-","2">>],
    [jira_email |-> TRUE, jira_api_token |-> TRUE, branch |-> <<"f","e","a","t","-","7">>],
    [jira_email |-> TRUE, jira_api_token |-> TRUE, branch |-> <<>>] }

StartsWith(s, prefix) == LiteralAt(s, 1, prefix)

\* line 226
restricted_branch(branch) ==
    \/ branch \in {<<"m","a","s","t","e","r">>, <<"m","a","i","n">>}
    \/ StartsWith(branch, <<"s","t","a","g","i","n","g">>)
    \/ StartsWith(branch, <<"p","r","o","d","u","c","t","i","o","n">>)

(* -------------------------------- state ------------------------------- *)

VARIABLES
    pc,               \* where main stands
    run,              \* which run of the hook on this message file
    store,            \* the content of the commit message file
    store_at_start,   \* its content when this run started
    tracker,          \* the answers the tracker may give to this run's request
    commit_msg,       \* main: the text read from the file
    jira_issue_key,   \* extract_jira_commands: the four fields
    time,
    comment,
    transition,
    response,         \* extract_transition: the tracker's answer
    incomplete_issues,
    requests,         \* number of requests sent to the tracker in this run
    requested_key,    \* the key in the URL of the request
    writes,           \* number of times this run wrote the file
    printed,          \* the error this run printed
    exit_status       \* -1 while the run goes on

vars == <<pc, run, store, store_at_start, tracker, commit_msg, jira_issue_key, time, comment,
          transition, response, incomplete_issues, requests, requested_key, writes, printed,
          exit_status>>

fields == <<jira_issue_key, time, comment, transition>>
gate == <<response, incomplete_issues, requests, requested_key>>

Fresh ==
    /\ pc = "main"
    /\ commit_msg = None
    /\ jira_issue_key = None
    /\ time = None
    /\ comment = None
    /\ transition = None
    /\ response = NoResponse
    /\ incomplete_issues = <<>>
    /\ requests = 0
    /\ requested_key = None
    /\ writes = 0
    /\ printed = "nothing"
    /\ exit_status = -1

Init ==
    /\ \/ store \in Messages /\ tracker = FewResponses
       \/ store \in GateMessages /\ tracker = AllResponses
    /\ store_at_start = store
    /\ run = 1
    /\ Fresh

\* sys.exit(1) after print(message)
Exit1(message) ==
    /\ pc' = "exit1"
    /\ printed' = message
    /\ exit_status' = 1

(* -------------------------------- main -------------------------------- *)

\* lines 202-230: the credentials of the tracker and the branch
CheckEnvironment ==
    /\ pc = "main"
    /\ \E env \in Environments :
          IF ~env.jira_email THEN Exit1("JIRA_EMAIL is not set")
          ELSE IF ~env.jira_api_token THEN Exit1("JIRA_API_TOKEN is not set")
          ELSE IF restricted_branch(env.branch) THEN Exit1("restricted branch")
          ELSE /\ pc' = "open"
               /\ UNCHANGED <<printed, exit_status>>
    /\ UNCHANGED <<run, store, store_at_start, tracker, commit_msg, fields, gate, writes>>

\* the read with the file opened for writing, which empties it
ReadStore_truncating ==
    /\ pc = "open"
    /\ commit_msg' = store
    /\ store' = <<>>
    /\ pc' = "extract_jira_issue_key"
    /\ UNCHANGED <<run, store_at_start, tracker, fields, gate, writes, printed, exit_status>>

\* lines 233-234
ReadStore ==
    /\ pc = "open"
    /\ commit_msg' = store
    /\ pc' = "extract_jira_issue_key"
    /\ UNCHANGED <<run, store, store_at_start, tracker, fields, gate, writes, printed, exit_status>>

\* lines 233, 275-277: open raises FileNotFoundError
StoreNotFound ==
    /\ pc = "open"
    /\ Exit1("Commit message file not found")
    /\ UNCHANGED <<run, store, store_at_start, tracker, commit_msg, fields, gate, writes>>

\* line 34
ExtractJiraIssueKey ==
    /\ pc = "extract_jira_issue_key"
    /\ jira_issue_key' = extract_jira_issue_key(commit_msg)
    /\ pc' = "extract_and_validate_time"
    /\ UNCHANGED <<run, store, store_at_start, tracker, commit_msg, time, comment, transition,
                   gate, writes, printed, exit_status>>

\* line 35; the ValueError of lines 74-77 is caught at lines 272-274
ExtractAndValidateTime ==
    /\ pc = "extract_and_validate_time"
    /\ IF time_is_rejected(commit_msg)
       THEN /\ Exit1("Invalid or missing time format")
            /\ time' = time
       ELSE /\ time' = time_match(commit_msg)
            /\ pc' = "extract_comment"
            /\ UNCHANGED <<printed, exit_status>>
    /\ UNCHANGED <<run, store, store_at_start, tracker, commit_msg, jira_issue_key, comment,
                   transition, gate, writes>>

\* line 36
ExtractComment ==
    /\ pc = "extract_comment"
    /\ comment' = extract_comment(commit_msg, time)
    /\ pc' = "request"
    /\ UNCHANGED <<run, store, store_at_start, tracker, commit_msg, jira_issue_key, time,
                   transition, gate, writes, printed, exit_status>>

\* line 114: f"{issue_key}" of None is the text None
IssueUrlKey(issue_key) == IF issue_key = None THEN <<"N","o","n","e">> ELSE issue_key

\* lines 37, 110-123: the GET; an exception of requests is caught at lines 278-280
RequestIssue ==
    /\ pc = "request"
    /\ requests' = requests + 1
    /\ requested_key' = IssueUrlKey(jira_issue_key)
    /\ \E r \in tracker :
          IF r.kind = "error"
          THEN /\ Exit1("An unexpected error occurred")
               /\ response' = response
          ELSE /\ response' = r
               /\ pc' = "check_status_code"
               /\ UNCHANGED <<printed, exit_status>>
    /\ UNCHANGED <<run, store, store_at_start, tracker, commit_msg, fields, incomplete_issues,
                   writes>>

\* lines 125-129
CheckStatusCode ==
    /\ pc = "check_status_code"
    /\ IF response.status_code # HTTP_OK
       THEN Exit1("Failed to fetch issue details")
       ELSE /\ pc' = "check_subtasks"
            /\ UNCHANGED <<printed, exit_status>>
    /\ UNCHANGED <<run, store, store_at_start, tracker, commit_msg, fields, gate, writes>>

\* the loop of lines 140-145 leaving at the first subtask that is not done
RECURSIVE incomplete_first_only(_)
incomplete_first_only(subtasks) ==
    IF Len(subtasks) = 0 THEN <<>>
    ELSE IF Head(subtasks).status # "done" THEN <<Head(subtasks).key>>
    ELSE incomplete_first_only(Tail(subtasks))

\* lines 140-145: the keys of the subtasks whose status category is not done
RECURSIVE incomplete(_)
incomplete(subtasks) ==
    IF Len(subtasks) = 0 THEN <<>>
    ELSE (IF Head(subtasks).status # "done" THEN <<Head(subtasks).key>> ELSE <<>>)
         \o incomplete(Tail(subtasks))

\* lines 131-151; a body that is not the expected JSON raises (ValueError of
\* response.json, KeyError of the subscripts), caught at lines 272-280
CheckSubtasks ==
    /\ pc = "check_subtasks"
    /\ IF ~response.json
       THEN /\ Exit1("An unexpected error occurred")
            /\ incomplete_issues' = incomplete_issues
       ELSE IF ~response.subtask /\ Len(response.subtasks) # 0
       THEN /\ incomplete_issues' = incomplete(response.subtasks)
            /\ IF incomplete_issues' # <<>>
               THEN Exit1("Subtasks not done")
               ELSE /\ pc' = "findall"
                    /\ UNCHANGED <<printed, exit_status>>
       ELSE /\ incomplete_issues' = <<>>
            /\ pc' = "findall"
            /\ UNCHANGED <<printed, exit_status>>
    /\ UNCHANGED <<run, store, store_at_start, tracker, commit_msg, fields, response, requests,
                   requested_key, writes>>

\* lines 153-163
FindTransition ==
    /\ pc = "findall"
    /\ transition' = find_transition(commit_msg)
    /\ pc' = "check_fields"
    /\ UNCHANGED <<run, store, store_at_start, tracker, commit_msg, jira_issue_key, time, comment,
                   gate, writes, printed, exit_status>>

\* the checks without those of the comment and the transition
CheckFields_key_and_time_only ==
    /\ pc = "check_fields"
    /\ IF jira_issue_key = None THEN Exit1("Jira issue key is mandatory")
       ELSE IF time = None THEN Exit1("Time spent on issue is mandatory")
       ELSE /\ pc' = "compose"
            /\ UNCHANGED <<printed, exit_status>>
    /\ UNCHANGED <<run, store, store_at_start, tracker, commit_msg, fields, gate, writes>>

\* lines 239-253
CheckFields ==
    /\ pc = "check_fields"
    /\ IF jira_issue_key = None THEN Exit1("Jira issue key is mandatory")
       ELSE IF time = None THEN Exit1("Time spent on issue is mandatory")
       ELSE IF comment = None THEN Exit1("Comment is mandatory")
       ELSE IF transition = None THEN Exit1("Transition action is mandatory")
       ELSE /\ pc' = "compose"
            /\ UNCHANGED <<printed, exit_status>>
    /\ UNCHANGED <<run, store, store_at_start, tracker, commit_msg, fields, gate, writes>>

\* lines 258-270, and the return of main
ComposeAndWrite ==
    /\ pc = "compose"
    /\ store' = compose_smart_commit_message(jira_issue_key, time, comment, transition)
    /\ writes' = writes + 1
    /\ pc' = "exit0"
    /\ exit_status' = 0
    /\ UNCHANGED <<run, store_at_start, tracker, commit_msg, fields, gate, printed>>

\* lines 283-284: the hook runs again on the file an accepted run left
Amend ==
    /\ pc = "exit0"
    /\ run < MaxRuns
    /\ run' = run + 1
    /\ store_at_start' = store
    /\ pc' = "main"
    /\ commit_msg' = None
    /\ jira_issue_key' = None
    /\ time' = None
    /\ comment' = None
    /\ transition' = None
    /\ response' = NoResponse
    /\ incomplete_issues' = <<>>
    /\ requests' = 0
    /\ requested_key' = None
    /\ writes' = 0
    /\ printed' = "nothing"
    /\ exit_status' = -1
    /\ UNCHANGED <<store, tracker>>

Next ==
    \/ CheckEnvironment
    \/ ReadStore
    \/ StoreNotFound
    \/ ExtractJiraIssueKey
    \/ ExtractAndValidateTime
    \/ ExtractComment
    \/ RequestIssue
    \/ CheckStatusCode
    \/ CheckSubtasks
    \/ FindTransition
    \/ CheckFields
    \/ ComposeAndWrite
    \/ Amend

Spec == Init /\ [][Next]_vars

(* ------------------------------- claims ------------------------------- *)

Exited == pc \in {"exit0", "exit1"}

\* the errors of lines 202-234, printed before the message is looked at
EnvironmentErrors == {"JIRA_EMAIL is not set", "JIRA_API_TOKEN is not set", "restricted branch",
                      "Commit message file not found"}
\* the errors of lines 239-253
FieldErrors == {"Jira issue key is mandatory", "Time spent on issue is mandatory",
                "Comment is mandatory", "Transition action is mandatory"}
\* the errors of the request and of the status code
FetchErrors == {"Failed to fetch issue details", "An unexpected error occurred"}

\* the run is past the subtask check
PastGate ==
    \/ pc \in {"findall", "check_fields", "compose", "exit0"}
    \/ pc = "exit1" /\ printed \in FieldErrors

\* the run is past the scan for the transition
PastFindTransition ==
    \/ pc \in {"check_fields", "compose", "exit0"}
    \/ pc = "exit1" /\ printed \in FieldErrors

\* the tracker's answer lets the run go on
AnswerPasses(r) ==
    /\ r.kind = "response"
    /\ r.status_code = 200
    /\ r.json
    /\ \/ r.subtask
       \/ Len(r.subtasks) = 0
       \/ \A k \in 1..Len(r.subtasks) : r.subtasks[k].status = "done"

\* C1: the message file is written at most once in a run, and only by a run
\* whose issue key, time, comment and transition were all extracted and whose
\* subtask check passed; in every run that fails (exit status 1) the file
\* holds what it held when the run started.
C1_StoreWrittenOnlyOnSuccess ==
    /\ writes <= 1
    /\ (writes = 1 \/ store # store_at_start) =>
          /\ pc = "exit0"
          /\ exit_status = 0
          /\ jira_issue_key # None /\ jira_issue_key = extract_jira_issue_key(store_at_start)
          /\ time # None /\ ~time_is_rejected(store_at_start)
          /\ comment = extract_comment(store_at_start, time)
          /\ transition = find_transition(store_at_start)
          /\ requests = 1
          /\ AnswerPasses(response)
    /\ exit_status = 1 => (store = store_at_start /\ writes = 0)

\* a run rejected after the tracker was asked, with the file as it was
C1_Witness ==
    /\ pc = "exit1"
    /\ printed = "Transition action is mandatory"
    /\ requests = 1
    /\ store = store_at_start
    /\ Len(store) > 0

\* C2: the tracker is asked, and the run can be rejected for the fetch or for
\* the subtasks, only if the message holds a transition of the allowed set.
C2_GateOnlyWithTransition ==
    (requests > 0 \/ printed \in FetchErrors \cup {"Subtasks not done"})
        => find_transition(store_at_start) # None

\* C3: a message without an issue key ends the run with the issue key error,
\* before the time is validated and before the tracker is asked.
C3_IssueKeyFirst ==
    (/\ pc \notin {"main", "open"}
     /\ printed \notin EnvironmentErrors
     /\ extract_jira_issue_key(commit_msg) = None)
        => /\ requests = 0
           /\ time = None
           /\ Exited => (exit_status = 1 /\ printed = "Jira issue key is mandatory")

\* C4: once the tracker was asked and the answer was looked at: if the fetch
\* succeeded the run goes on when the issue is a subtask or has no subtask;
\* otherwise it is rejected (exit 1, file unchanged) exactly when a subtask is
\* not done, and the keys it reports are those of the subtasks that are not
\* done, in the tracker's order; if the fetch failed the run is rejected.
C4_GateDecision ==
    LET fetched == response.kind = "response" /\ response.status_code = 200 /\ response.json
        notdone == SelectSeq(response.subtasks, LAMBDA t : t.status # "done")
        guarded == ~response.subtask /\ Len(response.subtasks) > 0
    IN  (requests = 1 /\ pc \notin {"check_status_code", "check_subtasks"}) =>
           /\ (fetched /\ ~guarded) => PastGate
           /\ (fetched /\ guarded /\ Len(notdone) = 0) => PastGate
           /\ (fetched /\ guarded /\ Len(notdone) > 0) =>
                 /\ pc = "exit1" /\ exit_status = 1
                 /\ printed = "Subtasks not done"
                 /\ store = store_at_start
                 /\ incomplete_issues = [k \in 1..Len(notdone) |-> notdone[k].key]
           /\ ~fetched =>
                 /\ pc = "exit1" /\ exit_status = 1
                 /\ printed \in FetchErrors
                 /\ store = store_at_start

\* a parent with a done and a not done subtask stops a transition to review
C4_Witness ==
    /\ pc = "exit1"
    /\ printed = "Subtasks not done"
    /\ Len(response.subtasks) = 2
    /\ incomplete_issues = <<SubtaskKeys[2]>>
    /\ find_transition(commit_msg) = <<"r","e","v","i","e","w">>

C6_Idempotent ==
    (run > 1 /\ PastGate /\ Exited) => (exit_status = 0 /\ store = store_at_start)

\* C7: the file an accepted run leaves is the issue key, then " #time " and
\* the time, then " #comment " and the comment if there is one, then " #" and
\* the transition if there is one, whatever the order in the message read.
C7_CanonicalOrder ==
    pc = "exit0" =>
        LET k == extract_jira_issue_key(store_at_start)
            t == time_match(store_at_start)
            c == extract_comment(store_at_start, t)
            r == find_transition(store_at_start)
        IN  store = k \o <<" ","#","t","i","m","e"," ">> \o t
                      \o (IF c # None THEN <<" ","#","c","o","m","m","e","n","t"," ">> \o c ELSE <<>>)
                      \o (IF r # None THEN <<" ","#">> \o r ELSE <<>>)

\* an accepted message that starts with its transition, not with its issue key
C7_Witness ==
    /\ pc = "exit0"
    /\ run = 1
    /\ store_at_start[1] = "#"
    /\ find_transition(SubSeq(store_at_start, 1, 7)) # None
    /\ store[1] = "C"

\* the Duration Grammar: components of digits (a positive integer) and one
\* unit, separated by whitespace, from position i of t to its end
RECURSIVE DurationFrom(_, _)
DurationFrom(t, i) ==
    LET u == SkipDigits(t, i)
    IN  /\ u > i
        /\ \E k \in i..(u - 1) : t[k] # "0"
        /\ u <= Len(t)
        /\ IsUnit(t[u])
        /\ \/ u = Len(t)
           \/ /\ SkipSpaces(t, u + 1) > u + 1
              /\ DurationFrom(t, SkipSpaces(t, u + 1))

\* C8: the time a run extracts matches the Duration Grammar, and a run
\* without such a time ends with the time error.
C8_TimeMatchesGrammar ==
    /\ time # None => DurationFrom(time, 1)
    /\ printed = "Invalid or missing time format" => (exit_status = 1 /\ time = None)

\* s holds part somewhere
Contains(s, part) == \E i \in 1..Len(s) : LiteralAt(s, i, part)

\* the components \d+\s*[hdm] of a time, from position i on
RECURSIVE ComponentsFrom(_, _)
ComponentsFrom(t, i) ==
    IF i > Len(t) \/ ComponentEnd(t, i) = 0 THEN {}
    ELSE {SubSeq(t, i, ComponentEnd(t, i))}
         \cup ComponentsFrom(t, SkipSpaces(t, ComponentEnd(t, i) + 1))

\* C9: the comment, explicit or not, holds nothing another field claims: no
\* component of the time and no transition.
C9_CommentHoldsNoOtherField ==
    comment # None =>
        /\ find_transition(comment) = None
        /\ \A part \in ComponentsFrom(time, 1) : ~Contains(comment, part)

\* the allowed set of the specification
AllowedSet == {allowed_transitions[k] : k \in 1..Len(allowed_transitions)}

\* the lower-cased word that follows the # at position i
TokenAt(s, i) == Lower(SubSeq(s, i + 1, SkipWord(s, i + 1) - 1))

\* C10: past the subtask check, the transition is the lower-cased word of the
\* first #word of the message whose lower-cased word is in the allowed set,
\* and absent if there is none; a transition is always in the allowed set.
C10_FirstAllowedToken ==
    PastFindTransition =>
        LET starts == {i \in 1..(Len(commit_msg) - 1) :
                          /\ commit_msg[i] = "#"
                          /\ IsWord(commit_msg[i + 1])
                          /\ TokenAt(commit_msg, i) \in AllowedSet}
        IN  /\ starts = {} => transition = None
            /\ starts # {} =>
                  transition = TokenAt(commit_msg, CHOOSE i \in starts : \A j \in starts : i <= j)
            /\ transition # None => transition \in AllowedSet

\* #wip is passed over and #Done gives done, although #review follows it
C10_Witness ==
    /\ PastFindTransition
    /\ transition = <<"d","o","n","e">>
    /\ \E i \in 1..Len(commit_msg) : LiteralAt(commit_msg, i, Words[10])
    /\ \E i, j \in 1..Len(commit_msg) :
          /\ i < j
          /\ LiteralAt(commit_msg, i, Words[8])
          /\ LiteralAt(commit_msg, j, Words[9])

====
